---- MODULE Spec2Model ----
(***************************************************************************)
(* Creator payout system: the VAT classifier (shared/vat-utils.ts) and the *)
(* payment-request lifecycle (server/routes.ts over server/storage.ts).    *)
(*                                                                         *)
(* Amounts are JavaScript Numbers (IEEE-754 binary64).  A finite           *)
(* non-negative Number is the record [m |-> mantissa, e |-> exponent] of   *)
(* value m * 2^e, the mantissa a natural number of exactly 53 bits kept as *)
(* a little-endian sequence of limbs (zero is the empty mantissa).         *)
(* Database decimal(p,2) columns are integers counted in hundredths.       *)
(***************************************************************************)
EXTENDS Integers, Sequences, FiniteSets, TLC

\* ------------------------------------------------------------------------
\* Natural numbers of any size: little-endian limb sequences, no high zeros
\* ------------------------------------------------------------------------

LimbBits == 14
Base == 2 ^ LimbBits
MantBits == 53

RECURSIVE BNTrim(_)
BNTrim(s) ==
  IF s = <<>> THEN <<>>
  ELSE IF s[Len(s)] = 0 THEN BNTrim(SubSeq(s, 1, Len(s) - 1)) ELSE s

RECURSIVE BNFromInt(_)
BNFromInt(n) == IF n = 0 THEN <<>> ELSE <<n % Base>> \o BNFromInt(n \div Base)

RECURSIVE BNToInt(_)
BNToInt(s) == IF s = <<>> THEN 0 ELSE Head(s) + Base * BNToInt(Tail(s))

RECURSIVE BNAddC(_, _, _)
BNAddC(a, b, c) ==
  IF a = <<>> /\ b = <<>> THEN BNFromInt(c)
  ELSE LET x  == IF a = <<>> THEN 0 ELSE Head(a)
           y  == IF b = <<>> THEN 0 ELSE Head(b)
           ta == IF a = <<>> THEN <<>> ELSE Tail(a)
           tb == IF b = <<>> THEN <<>> ELSE Tail(b)
           s  == x + y + c
       IN  <<s % Base>> \o BNAddC(ta, tb, s \div Base)

BNAdd(a, b) == BNAddC(a, b, 0)

RECURSIVE BNMulSmallC(_, _, _)
BNMulSmallC(a, k, c) ==
  IF a = <<>> THEN BNFromInt(c)
  ELSE LET p == Head(a) * k + c
       IN  <<p % Base>> \o BNMulSmallC(Tail(a), k, p \div Base)

\* a * k for a small factor k (k <= 2^16)
BNMulSmall(a, k) == BNTrim(BNMulSmallC(a, k, 0))

RECURSIVE BNMul(_, _)
BNMul(a, b) ==
  IF a = <<>> \/ b = <<>> THEN <<>>
  ELSE BNTrim(BNAdd(BNMulSmall(a, Head(b)), <<0>> \o BNMul(a, Tail(b))))

RECURSIVE BNDivStep(_, _, _, _)
BNDivStep(a, i, k, r) ==
  IF i = 0 THEN [q |-> <<>>, r |-> r]
  ELSE LET cur  == r * Base + a[i]
           rest == BNDivStep(a, i - 1, k, cur % k)
       IN  [q |-> rest.q \o <<cur \div k>>, r |-> rest.r]

\* quotient and remainder of a by a small divisor k (k <= 2^16)
BNDivSmall(a, k) ==
  LET d == BNDivStep(a, Len(a), k, 0) IN [q |-> BNTrim(d.q), r |-> d.r]

RECURSIVE BNCmpFrom(_, _, _)
BNCmpFrom(a, b, i) ==
  IF i = 0 THEN 0
  ELSE IF a[i] < b[i] THEN -1
  ELSE IF a[i] > b[i] THEN 1
  ELSE BNCmpFrom(a, b, i - 1)

BNCmp(a, b) ==
  IF Len(a) < Len(b) THEN -1
  ELSE IF Len(a) > Len(b) THEN 1
  ELSE BNCmpFrom(a, b, Len(a))

RECURSIVE IntBitLen(_)
IntBitLen(n) == IF n = 0 THEN 0 ELSE 1 + IntBitLen(n \div 2)

BNBitLen(a) ==
  IF a = <<>> THEN 0 ELSE LimbBits * (Len(a) - 1) + IntBitLen(a[Len(a)])

RECURSIVE BNShl(_, _)
BNShl(a, k) ==
  IF a = <<>> THEN <<>>
  ELSE IF k >= LimbBits THEN <<0>> \o BNShl(a, k - LimbBits)
  ELSE BNMulSmall(a, 2 ^ k)

\* floor(a / 2^k), and whether any of the bits shifted out was set
RECURSIVE BNShr(_, _)
BNShr(a, k) ==
  IF a = <<>> THEN [q |-> <<>>, sticky |-> FALSE]
  ELSE IF k >= LimbBits
    THEN LET rest == BNShr(Tail(a), k - LimbBits)
         IN  [q |-> rest.q, sticky |-> rest.sticky \/ Head(a) # 0]
  ELSE LET d == BNDivSmall(a, 2 ^ k) IN [q |-> d.q, sticky |-> d.r # 0]

BNIsOdd(a) == a # <<>> /\ Head(a) % 2 = 1

\* ------------------------------------------------------------------------
\* IEEE-754 binary64, round to nearest, ties to even
\* ------------------------------------------------------------------------

Zero == [m |-> <<>>, e |-> 0]

\* The Number nearest to n * 2^e (+ a positive amount below one unit of n's
\* last place when sticky): the rounding every arithmetic operation applies.
RoundToDouble(n, e, sticky) ==
  LET L == BNBitLen(n) IN
  IF n = <<>> THEN Zero
  ELSE IF L <= MantBits
    THEN [m |-> BNShl(n, MantBits - L), e |-> e - (MantBits - L)]
  ELSE LET s     == L - MantBits
           sh    == BNShr(n, s - 1)
           half  == BNDivSmall(sh.q, 2)
           q     == half.q
           guard == half.r = 1
           st    == sh.sticky \/ sticky
           up    == guard /\ (st \/ BNIsOdd(q))
           r     == IF up THEN BNAdd(q, <<1>>) ELSE q
       IN  IF BNBitLen(r) > MantBits
             THEN [m |-> BNDivSmall(r, 2).q, e |-> e + s + 1]
             ELSE [m |-> r, e |-> e + s]

\* x * y
FMul(x, y) ==
  IF x = Zero \/ y = Zero THEN Zero
  ELSE RoundToDouble(BNMul(x.m, y.m), x.e + y.e, FALSE)

\* x + y
FAdd(x, y) ==
  IF x = Zero THEN y
  ELSE IF y = Zero THEN x
  ELSE LET e == IF x.e < y.e THEN x.e ELSE y.e
       IN  RoundToDouble(BNAdd(BNShl(x.m, x.e - e), BNShl(y.m, y.e - e)), e, FALSE)

\* -1, 0, 1 as x < y, x = y, x > y
FCmp(x, y) ==
  IF x = y THEN 0
  ELSE IF x = Zero THEN -1
  ELSE IF y = Zero THEN 1
  ELSE IF x.e < y.e THEN -1
  ELSE IF x.e > y.e THEN 1
  ELSE BNCmp(x.m, y.m)

RatShift == 70

\* The Number nearest to num / den (0 <= num, 1 <= den <= 2^16): what reading
\* a decimal literal with that value yields.
FromRat(num, den) ==
  IF num = 0 THEN Zero
  ELSE LET d == BNDivSmall(BNShl(BNFromInt(num), RatShift), den)
       IN  RoundToDouble(d.q, 0 - RatShift, d.r # 0)

\* x / den for an integer 1 <= den <= 2^16
FDivSmall(x, den) ==
  IF x = Zero THEN Zero
  ELSE LET d == BNDivSmall(BNShl(x.m, RatShift), den)
       IN  RoundToDouble(d.q, x.e - RatShift, d.r # 0)

\* parseFloat of a decimal string with two fraction digits, given in hundredths
\* ("9.50" is 950)
parseFloat(cents) == FromRat(cents, 100)

\* Math.round of a Number that is not negative: the nearest integer, a half
\* rounded up
MathRound(d) ==
  IF d = Zero THEN 0
  ELSE IF d.e >= 0 THEN BNToInt(BNShl(d.m, d.e))
  ELSE BNToInt(BNShr(BNAdd(d.m, BNShl(BNFromInt(1), (0 - d.e) - 1)), 0 - d.e).q)

\* Number.prototype.toString followed by the cast of that text to a
\* decimal(p,2) column, in hundredths.  toString prints the shortest decimal
\* that reads back as d and the cast rounds halves away from zero, so d is
\* stored as j+1 hundredths exactly when d is at least the Number that the
\* decimal j + 1/2 hundredths reads as, and as j = floor(100 d) otherwise.
toNumericScale2(d) ==
  IF d = Zero THEN 0
  ELSE LET n  == BNMulSmall(d.m, 100)
           j  == BNToInt(IF d.e >= 0 THEN BNShl(n, d.e) ELSE BNShr(n, 0 - d.e).q)
           dB == FromRat(2 * j + 1, 200)
       IN  IF FCmp(d, dB) >= 0 THEN j + 1 ELSE j

\* ------------------------------------------------------------------------
\* shared/vat-utils.ts
\* ------------------------------------------------------------------------

EU_COUNTRY_CODES ==
  { "AT", "BE", "BG", "HR", "CY", "CZ", "DK", "EE",
    "FI", "FR", "DE", "GR", "HU", "IE", "IT", "LV",
    "LT", "LU", "MT", "NL", "PL", "PT", "RO", "SK",
    "SI", "ES", "SE" }

\* the literal 0.21
DutchRate == FromRat(21, 100)

\* -- variants of calculateVAT, each with one slip ---------------------------

\* the rate as a percentage (21) and the amount as amount * rate / 100
calculateVATPercentRate(amount, countryCode, businessType) ==
  IF countryCode = "NL" /\ businessType = "vat_registered"
    THEN LET rate == FromRat(21, 1)
             vatAmount == FMul(FMul(amount, rate), FromRat(1, 100))
         IN  [rate |-> rate, amount |-> vatAmount, total |-> FAdd(amount, vatAmount),
              isEUVATShift |-> FALSE, note |-> "Dutch VAT (21%) applied."]
  ELSE IF countryCode \in EU_COUNTRY_CODES /\ businessType = "vat_registered"
    THEN [rate |-> Zero, amount |-> Zero, total |-> amount,
          isEUVATShift |-> TRUE, note |-> "EU VAT reverse charge (VAT shifted)."]
  ELSE [rate |-> Zero, amount |-> Zero, total |-> amount,
        isEUVATShift |-> FALSE, note |-> "No VAT applicable."]

\* EU membership looked up in the short country table of the earlier version
calculateVATShortTable(amount, countryCode, businessType) ==
  IF countryCode = "NL" /\ businessType = "vat_registered"
    THEN LET vatAmount == FMul(amount, DutchRate)
         IN  [rate |-> DutchRate, amount |-> vatAmount, total |-> FAdd(amount, vatAmount),
              isEUVATShift |-> FALSE, note |-> "Dutch VAT (21%) applied."]
  ELSE IF countryCode \in {"DE", "FR", "BE", "ES", "IT"} /\ businessType = "vat_registered"
    THEN [rate |-> Zero, amount |-> Zero, total |-> amount,
          isEUVATShift |-> TRUE, note |-> "EU VAT reverse charge (VAT shifted)."]
  ELSE [rate |-> Zero, amount |-> Zero, total |-> amount,
        isEUVATShift |-> FALSE, note |-> "No VAT applicable."]

\* business type "company" treated as the reverse-charge trigger
calculateVATCompany(amount, countryCode, businessType) ==
  IF countryCode = "NL" /\ businessType = "vat_registered"
    THEN LET vatAmount == FMul(amount, DutchRate)
         IN  [rate |-> DutchRate, amount |-> vatAmount, total |-> FAdd(amount, vatAmount),
              isEUVATShift |-> FALSE, note |-> "Dutch VAT (21%) applied."]
  ELSE IF /\ countryCode \in EU_COUNTRY_CODES
          /\ countryCode # "NL"
          /\ businessType \in {"vat_registered", "company"}
    THEN [rate |-> Zero, amount |-> Zero, total |-> amount,
          isEUVATShift |-> TRUE, note |-> "EU VAT reverse charge (VAT shifted)."]
  ELSE [rate |-> Zero, amount |-> Zero, total |-> amount,
        isEUVATShift |-> FALSE, note |-> "No VAT applicable."]

toUpperCase(code) ==
  CASE code = "nl" -> "NL"
    [] code = "Nl" -> "NL"
    [] code = "de" -> "DE"
    [] OTHER -> code

\* the country code compared without regard to case
calculateVATAnyCase(amount, countryCode, businessType) ==
  IF toUpperCase(countryCode) = "NL" /\ businessType = "vat_registered"
    THEN LET vatAmount == FMul(amount, DutchRate)
         IN  [rate |-> DutchRate, amount |-> vatAmount, total |-> FAdd(amount, vatAmount),
              isEUVATShift |-> FALSE, note |-> "Dutch VAT (21%) applied."]
  ELSE IF /\ toUpperCase(countryCode) \in EU_COUNTRY_CODES
          /\ businessType = "vat_registered"
    THEN [rate |-> Zero, amount |-> Zero, total |-> amount,
          isEUVATShift |-> TRUE, note |-> "EU VAT reverse charge (VAT shifted)."]
  ELSE [rate |-> Zero, amount |-> Zero, total |-> amount,
        isEUVATShift |-> FALSE, note |-> "No VAT applicable."]

calculateVAT(amount, countryCode, businessType) ==
  LET isDutchVatRegistered == countryCode = "NL" /\ businessType = "vat_registered"
      isEUNonDutchVatRegistered ==
        /\ countryCode \in EU_COUNTRY_CODES
        /\ countryCode # "NL"
        /\ businessType = "vat_registered"
  IN  IF isDutchVatRegistered
        THEN LET rate == DutchRate
                 vatAmount == FMul(amount, rate)
             IN  [rate |-> rate, amount |-> vatAmount, total |-> FAdd(amount, vatAmount),
                  isEUVATShift |-> FALSE, note |-> "Dutch VAT (21%) applied."]
      ELSE IF isEUNonDutchVatRegistered
        THEN [rate |-> Zero, amount |-> Zero, total |-> amount,
              isEUVATShift |-> TRUE, note |-> "EU VAT reverse charge (VAT shifted)."]
      ELSE [rate |-> Zero, amount |-> Zero, total |-> amount,
            isEUVATShift |-> FALSE, note |-> "No VAT applicable."]

\* ------------------------------------------------------------------------
\* The two other definitions of calculateVAT in the repository: the client
\* lib (@/lib/vat-utils, imported by the payment and creator modals) and the
\* function embedded in the earlier routes module.  Both look the country up
\* in a table of percentages and return { rate, amount }.
\* ------------------------------------------------------------------------

\* VAT_RATES / vatRates: country -> percentage
VAT_RATES ==
  [c \in {"NL", "DE", "FR", "BE", "ES", "IT", "UK", "US"} |->
     CASE c = "NL" -> 21 [] c = "DE" -> 19 [] c = "FR" -> 20 [] c = "BE" -> 21
       [] c = "ES" -> 21 [] c = "IT" -> 22 [] c = "UK" -> 20 [] c = "US" -> 0]

\* client lib: VAT_RATES.find(r => r.country === country) is an entry, also
\* the one of the US whose rate is 0
libCalculateVAT(amount, country, businessType) ==
  LET found == country \in DOMAIN VAT_RATES
      rate  == IF found THEN VAT_RATES[country] ELSE 0
  IN  IF businessType = "vat_registered" /\ found /\ country # "NL"
        THEN [rate |-> Zero, amount |-> Zero]
      ELSE IF businessType = "vat_exempt"
        THEN [rate |-> Zero, amount |-> Zero]
      ELSE [rate |-> FromRat(rate, 1),
            amount |-> FDivSmall(FMul(amount, FromRat(rate, 1)), 100)]

\* What an object literal inherits from Object.prototype: vatRates[country]
\* finds these keys too.  Each value is a function, or the prototype object
\* for __proto__; it is given here as the text String() makes of it.
ObjectPrototype ==
  [k \in {"constructor", "hasOwnProperty", "isPrototypeOf", "propertyIsEnumerable",
          "toLocaleString", "toString", "valueOf", "__defineGetter__",
          "__defineSetter__", "__lookupGetter__", "__lookupSetter__", "__proto__"} |->
     CASE k = "constructor" -> "function Object() { [native code] }"
       [] k = "hasOwnProperty" -> "function hasOwnProperty() { [native code] }"
       [] k = "isPrototypeOf" -> "function isPrototypeOf() { [native code] }"
       [] k = "propertyIsEnumerable" -> "function propertyIsEnumerable() { [native code] }"
       [] k = "toLocaleString" -> "function toLocaleString() { [native code] }"
       [] k = "toString" -> "function toString() { [native code] }"
       [] k = "valueOf" -> "function valueOf() { [native code] }"
       [] k = "__defineGetter__" -> "function __defineGetter__() { [native code] }"
       [] k = "__defineSetter__" -> "function __defineSetter__() { [native code] }"
       [] k = "__lookupGetter__" -> "function __lookupGetter__() { [native code] }"
       [] k = "__lookupSetter__" -> "function __lookupSetter__() { [native code] }"
       [] k = "__proto__" -> "[object Object]"]

\* the Number NaN, and a value that is not a Number
NaN == [nan |-> TRUE]
NotNumber(text) == [notNumber |-> text]
IsNumber(d) == "m" \in DOMAIN d

\* routes module: vatRates[country] is truthy for a non-zero percentage and
\* for an inherited key; the product of the amount and a function is NaN
routesCalculateVAT(amount, country, businessType) ==
  LET inherited == country \in DOMAIN ObjectPrototype
      rate == IF country \in DOMAIN VAT_RATES THEN VAT_RATES[country] ELSE 0
  IN  IF businessType = "vat_registered" /\ (rate # 0 \/ inherited) /\ country # "NL"
        THEN [rate |-> Zero, amount |-> Zero]
      ELSE IF businessType = "vat_exempt"
        THEN [rate |-> Zero, amount |-> Zero]
      ELSE IF inherited
        THEN [rate |-> NotNumber(ObjectPrototype[country]), amount |-> NaN]
      ELSE [rate |-> FromRat(rate, 1),
            amount |-> FDivSmall(FMul(amount, FromRat(rate, 1)), 100)]

\* ------------------------------------------------------------------------
\* Bounds and input sets
\* ------------------------------------------------------------------------

MaxCreators == 2
MaxRequests == 2
MaxClock == 2
MaxVATCents == 60
MaxTransfers == 2
MaxCallers == 2
MaxAccounts == 3

\* request-body amounts, as decimal strings in hundredths: "9.50", "100.00"
AmountInputs == {950, 10000}
\* "-5.00", "-0.01", "0", "9.50", "100.00"
SignedAmountInputs == {-500, -1, 0} \cup AmountInputs
Emails == {"ann@example.com", "bob@example.com"}
Countries == {"NL", "DE"}
\* creators.country is free text: also a key every object inherits
RequestCountries == Countries \cup {"constructor"}
BusinessTypes == {"individual", "vat_registered"}
\* VAT numbers a body may carry: an empty one and a Dutch one
VatIds == {"", "NL001234567B01"}
CompanyNames == {"Acme BV"}
Tokens == {"tokA", "tokB"}
\* a token no payment request was ever given
StaleToken == "tokZ"
Absent == "<absent>"
\* the creator, the amount and the token of the runs with one creator and one
\* payment request
FaultEmail == "ann@example.com"
FaultAmount == 10000
RaceToken == "tokA"
\* the HTTP requests in flight at the same time
Callers == 1 .. MaxCallers
\* the two routes modules of the repository: the one that imports the shared
\* classifier and the earlier one with its own calculateVAT
Routes == {"routes", "legacyRoutes"}

\* inputs of the classifier on its own
VATAmounts == (0 .. MaxVATCents) \cup {100000}
VATCountries == EU_COUNTRY_CODES \cup {"US", "GB", "UK", "CH", "XX", "", "nl", "de", "Nl"}
VATBusinessTypes == {"individual", "vat_registered", "vat_exempt", "company", ""}

VARIABLES
  creators,         \* table creators, in id order (id = index)
  paymentRequests,  \* table payment_requests, in id order (id = index)
  now,              \* the server clock read by new Date()
  res,              \* the HTTP response the last step sent, if it sent one
  claimsAccepted,   \* per payment request: how many claim calls were answered 200
  transfers,        \* per payment request: how many stripe.transfers.create calls returned
  sent,             \* per payment request: what the last of these calls was given
  accounts,         \* how many stripe.accounts.create calls returned an account
  calls,            \* per caller: the handler run in flight, suspended at an await
  vatArgs,          \* arguments of a calculateVAT call
  vatResult,        \* and the value it returned
  vatCopies,        \* what the two other definitions return for the same arguments
  vatPc

vars == <<creators, paymentRequests, now, res, claimsAccepted, transfers, sent, accounts,
          calls, vatArgs, vatResult, vatCopies, vatPc>>
dbVars == <<creators, paymentRequests, now, res, claimsAccepted, transfers, sent, accounts,
            calls>>
vatVars == <<vatArgs, vatResult, vatCopies, vatPc>>

NoResult == [rate |-> Zero, amount |-> Zero, total |-> Zero, isEUVATShift |-> FALSE, note |-> ""]
NoArgs == [amount |-> 0, countryCode |-> "", businessType |-> ""]
NoCopies == [lib |-> [rate |-> Zero, amount |-> Zero], routes |-> [rate |-> Zero, amount |-> Zero]]

Response(status, message) == [status |-> status, message |-> message]

\* no response sent
NoResponse == Response(0, "")

\* what the isAuthenticated middleware answers a request without a session
Unauthorized == Response(401, "Unauthorized")

\* what a catch block answers when a storage or Stripe call threw
ServerError == Response(500, "error")

\* ... and when the insert broke the unique index on creators.email or on
\* payment_requests.claim_token
DuplicateEmail ==
  Response(500, "duplicate key value violates unique constraint \"creators_email_unique\"")
DuplicateToken ==
  Response(500,
           "duplicate key value violates unique constraint \"payment_requests_claim_token_unique\"")

\* the insert of a row with text in a decimal column that is not a number
InvalidNumeric == Response(500, "invalid input syntax for type numeric")

\* no stripe.transfers.create call yet
NoTransfer == [amount |-> 0, currency |-> ""]

\* a caller with no handler run in flight
Idle == [pc |-> "idle", locals |-> <<>>]

\* ------------------------------------------------------------------------
\* server/storage.ts
\* ------------------------------------------------------------------------

getCreator(id) == IF id \in DOMAIN creators THEN {creators[id]} ELSE {}

getCreatorByEmail(email) ==
  {creators[i] : i \in {k \in DOMAIN creators : creators[k].email = email}}

getPaymentRequest(id) == IF id \in DOMAIN paymentRequests THEN {paymentRequests[id]} ELSE {}

getPaymentRequestByToken(token) ==
  {paymentRequests[i] :
     i \in {k \in DOMAIN paymentRequests : paymentRequests[k].claimToken = token}}

\* table creators after insert(creators).values(creator); vat_id and
\* company_name are NULL ("") when the values carry none
createCreator(creator) ==
  Append(creators,
         [id |-> Len(creators) + 1] @@ creator @@ [vatId |-> "", companyName |-> ""])

\* table creators after update(creators).set(updates).where(id)
updateCreator(table, id, updates) ==
  [table EXCEPT ![id] =
     [f \in DOMAIN table[id] |-> IF f \in DOMAIN updates THEN updates[f] ELSE table[id][f]]]

\* table payment_requests after insert(paymentRequests).values(request):
\* status defaults to pending, paidAt to null (0)
createPaymentRequest(request) ==
  Append(paymentRequests,
         [id |-> Len(paymentRequests) + 1, status |-> "pending", paidAt |-> 0] @@ request)

\* table payment_requests after update(paymentRequests).set(updates).where(id)
updatePaymentRequest(id, updates) ==
  [paymentRequests EXCEPT ![id] =
     [f \in DOMAIN paymentRequests[id] |->
        IF f \in DOMAIN updates THEN updates[f] ELSE paymentRequests[id][f]]]

\* ------------------------------------------------------------------------
\* server/routes.ts.  A handler is an async function: its run is suspended at
\* each await of a storage or Stripe call and the runs of other requests take
\* their steps in between.  One action per await of a handler: the awaited call
\* takes effect and returns (or throws), and the run goes on to its next await
\* or to its response.
\* ------------------------------------------------------------------------

\* a request that arrives is served in the first slot with no run in flight
Free(p) ==
  /\ calls[p].pc = "idle"
  /\ \A q \in Callers : q < p => calls[q].pc # "idle"

\* the run of caller p ends with this response
Respond(p, response) ==
  /\ calls' = [calls EXCEPT ![p] = Idle]
  /\ res' = response

\* the run of caller p is suspended at its next await, holding these locals;
\* the step sends no response
Await(p, pc, locals) ==
  /\ calls' = [calls EXCEPT ![p] = [pc |-> pc, locals |-> locals]]
  /\ res' = NoResponse

\* variant of transferAmount: the base amount, without the VAT
transferAmountBase(request) ==
  [amount |-> MathRound(FMul(parseFloat(request.amount), FromRat(100, 1))),
   currency |-> "eur"]

\* what the process handler gives stripe.transfers.create: the stored total,
\* read back from its decimal text, in cents
transferAmount(request) ==
  [amount |-> MathRound(FMul(parseFloat(request.totalAmount), FromRat(100, 1))),
   currency |-> "eur"]

\* the calculateVAT in the scope of a routes module (the handler reads rate
\* and amount of what it returns)
vatInScope(routes, amount, country, businessType) ==
  IF routes = "legacyRoutes"
    THEN routesCalculateVAT(amount, country, businessType)
    ELSE calculateVAT(amount, country, businessType)

\* ---- POST /api/creators/quick-create, behind isAuthenticated

\* up to the second await: the body was checked, getCreatorByEmail returned
QuickLookup(p, authenticated, email) ==
  /\ Free(p)
  /\ IF ~authenticated
       THEN Respond(p, Unauthorized)
     ELSE IF email = ""
       THEN Respond(p, Response(400, "Full name and email are required"))
     ELSE IF getCreatorByEmail(email) # {}
       THEN Respond(p, Response(400, "Creator with this email already exists"))
     ELSE Await(p, "quickInsert", [email |-> email])
  /\ UNCHANGED <<creators, paymentRequests, now, claimsAccepted, transfers, sent, accounts,
               vatVars>>

\* ... storage.createCreator returned, or threw on the unique email column
QuickInsert(p) ==
  /\ calls[p].pc = "quickInsert"
  /\ IF getCreatorByEmail(calls[p].locals.email) # {}
       THEN /\ Respond(p, DuplicateEmail)
            /\ UNCHANGED creators
       ELSE /\ Len(creators) < MaxCreators
            /\ creators' = createCreator([email |-> calls[p].locals.email, country |-> "NL",
                                          businessType |-> "individual",
                                          stripeAccountId |-> 0])
            /\ Await(p, "quickStripe", [id |-> Len(creators) + 1])
  /\ UNCHANGED <<paymentRequests, now, claimsAccepted, transfers, sent, accounts, vatVars>>

\* ... stripe.accounts.create returned or threw
QuickStripe(p, stripeOk) ==
  /\ calls[p].pc = "quickStripe"
  /\ IF ~stripeOk
       THEN /\ Respond(p, ServerError)
            /\ UNCHANGED accounts
       ELSE /\ accounts < MaxAccounts
            /\ accounts' = accounts + 1
            /\ Await(p, "quickUpdate", [id |-> calls[p].locals.id, account |-> accounts + 1])
  /\ UNCHANGED <<creators, paymentRequests, now, claimsAccepted, transfers, sent, vatVars>>

\* ... storage.updateCreator returned, the run answers 200
QuickUpdate(p) ==
  /\ calls[p].pc = "quickUpdate"
  /\ creators' = updateCreator(creators, calls[p].locals.id,
                               [stripeAccountId |-> calls[p].locals.account])
  /\ Respond(p, Response(200, ""))
  /\ UNCHANGED <<paymentRequests, now, claimsAccepted, transfers, sent, accounts, vatVars>>

\* ---- POST /api/creators

\* a POST /api/creators body, with or without the keys vatId and companyName
CreatorBody(email, country, businessType, vatId) ==
  [email |-> email, country |-> country, businessType |-> businessType]
    @@ (IF vatId = Absent THEN <<>> ELSE [vatId |-> vatId])

\* variant of CreateInsert: the table takes a second row with the same email
CreateInsertNoUnique(p) ==
  /\ calls[p].pc = "createInsert"
  /\ Len(creators) < MaxCreators
  /\ creators' = createCreator(calls[p].locals)
  /\ Respond(p, Response(200, ""))
  /\ UNCHANGED <<paymentRequests, now, claimsAccepted, transfers, sent, accounts, vatVars>>

\* up to the second await: the body was parsed, getCreatorByEmail returned
CreateLookup(p, body) ==
  /\ Free(p)
  /\ IF getCreatorByEmail(body.email) # {}
       THEN Respond(p, Response(400, "Creator with this email already exists"))
       ELSE Await(p, "createStripe", body)
  /\ UNCHANGED <<creators, paymentRequests, now, claimsAccepted, transfers, sent, accounts,
               vatVars>>

\* ... stripe.accounts.create returned or threw
CreateStripe(p, stripeOk) ==
  /\ calls[p].pc = "createStripe"
  /\ IF ~stripeOk
       THEN /\ Respond(p, ServerError)
            /\ UNCHANGED accounts
       ELSE /\ accounts < MaxAccounts
            /\ accounts' = accounts + 1
            /\ Await(p, "createInsert",
                     [stripeAccountId |-> accounts + 1] @@ calls[p].locals)
  /\ UNCHANGED <<creators, paymentRequests, now, claimsAccepted, transfers, sent, vatVars>>

\* ... storage.createCreator returned, or threw on the unique email column
CreateInsert(p) ==
  /\ calls[p].pc = "createInsert"
  /\ IF getCreatorByEmail(calls[p].locals.email) # {}
       THEN /\ Respond(p, DuplicateEmail)
            /\ UNCHANGED creators
       ELSE /\ Len(creators) < MaxCreators
            /\ creators' = createCreator(calls[p].locals)
            /\ Respond(p, Response(200, ""))
  /\ UNCHANGED <<paymentRequests, now, claimsAccepted, transfers, sent, accounts, vatVars>>

\* ---- PATCH /api/creators/:id

\* a PATCH body: the keys it carries, with their values
PatchUpdates(country, businessType, vatId, companyName) ==
  [f \in (IF country = Absent THEN {} ELSE {"country"})
         \cup (IF businessType = Absent THEN {} ELSE {"businessType"})
         \cup (IF vatId = Absent THEN {} ELSE {"vatId"})
         \cup (IF companyName = Absent THEN {} ELSE {"companyName"})
     |-> IF f = "country" THEN country
         ELSE IF f = "businessType" THEN businessType
         ELSE IF f = "vatId" THEN vatId
         ELSE companyName]

\* updates.country || updates.businessType || updates.companyName: the body
\* changes business details
BusinessDetails(updates) ==
  \E f \in DOMAIN updates \cap {"country", "businessType", "companyName"} : updates[f] # ""

\* variant of PatchUpdate: the creator's payment requests are recomputed from
\* the new profile
PatchUpdateRecompute(p) ==
  /\ calls[p].pc = "patchUpdate"
  /\ LET id == calls[p].locals.id
         updated == updateCreator(creators, id, calls[p].locals.updates)
         vatOf(r) == calculateVAT(parseFloat(r.amount), updated[id].country,
                                  updated[id].businessType)
     IN  /\ creators' = updated
         /\ paymentRequests' =
              [i \in DOMAIN paymentRequests |->
                 IF paymentRequests[i].creatorId # id THEN paymentRequests[i]
                 ELSE [paymentRequests[i] EXCEPT
                         !.vatRate = toNumericScale2(vatOf(paymentRequests[i]).rate),
                         !.vatAmount = toNumericScale2(vatOf(paymentRequests[i]).amount),
                         !.totalAmount = toNumericScale2(vatOf(paymentRequests[i]).total)]]
  /\ Respond(p, Response(200, ""))
  /\ UNCHANGED <<now, claimsAccepted, transfers, sent, accounts, vatVars>>

\* up to the second await: getCreator returned
PatchLookup(p, id, updates) ==
  /\ Free(p)
  /\ IF getCreator(id) = {}
       THEN Respond(p, Response(404, "Creator not found"))
     ELSE IF creators[id].stripeAccountId # 0 /\ BusinessDetails(updates)
       THEN Await(p, "patchStripe", [id |-> id, updates |-> updates])
     ELSE Await(p, "patchUpdate", [id |-> id, updates |-> updates])
  /\ UNCHANGED <<creators, paymentRequests, now, claimsAccepted, transfers, sent, accounts,
               vatVars>>

\* ... stripe.accounts.update returned or threw
PatchStripe(p, stripeOk) ==
  /\ calls[p].pc = "patchStripe"
  /\ IF ~stripeOk
       THEN Respond(p, ServerError)
       ELSE Await(p, "patchUpdate", calls[p].locals)
  /\ UNCHANGED <<creators, paymentRequests, now, claimsAccepted, transfers, sent, accounts,
               vatVars>>

\* ... storage.updateCreator returned, the run answers 200
PatchUpdate(p) ==
  /\ calls[p].pc = "patchUpdate"
  /\ creators' = updateCreator(creators, calls[p].locals.id, calls[p].locals.updates)
  /\ Respond(p, Response(200, ""))
  /\ UNCHANGED <<paymentRequests, now, claimsAccepted, transfers, sent, accounts, vatVars>>

\* ---- POST /api/payment-requests, behind isAuthenticated.  routes: the
\* module the handler is in (the two have the same text and differ in the
\* calculateVAT in scope); claimToken: what nanoid(32) returns.  The Numbers
\* are kept as magnitudes: parseFloat, the product with the rate, the sum,
\* toString and the cast to decimal are all odd in the amount, so a negative
\* amount gives the negated values of its magnitude.

\* the four decimal columns of the row to insert, from the magnitude of
\* parseFloat(amount), its sign and the result of calculateVAT.  A rate that
\* is not a Number (its VAT amount and the total are NaN then) leaves
\* rejected: the text of vat.rate.toString(), which no decimal column takes.
RequestColumns(sign, baseAmount, vat) ==
  IF ~IsNumber(vat.rate)
    THEN [amount |-> sign * toNumericScale2(baseAmount), rejected |-> vat.rate.notNumber]
    ELSE [amount |-> sign * toNumericScale2(baseAmount),
          vatRate |-> toNumericScale2(vat.rate),
          vatAmount |-> sign * toNumericScale2(vat.amount),
          totalAmount |-> sign * toNumericScale2(FAdd(baseAmount, vat.amount))]

Magnitude(amount) == IF amount < 0 THEN 0 - amount ELSE amount

RequestAmounts(routes, country, businessType, amount) ==
  RequestColumns(IF amount < 0 THEN -1 ELSE 1,
                 parseFloat(Magnitude(amount)),
                 vatInScope(routes, parseFloat(Magnitude(amount)), country, businessType))

\* RequestAmounts tabulated over the inputs of the specifications, so that it
\* is evaluated once for each of them
RequestAmountsOf ==
  {<<x, RequestAmounts(x[1], x[2], x[3], x[4])>> :
     x \in Routes \X RequestCountries \X BusinessTypes \X SignedAmountInputs}

\* the values of the row to insert
RequestValues(routes, creator, amount, claimToken) ==
  LET x == <<routes, creator.country, creator.businessType, amount>>
  IN  [creatorId |-> creator.id, claimToken |-> claimToken]
        @@ (IF \E y \in RequestAmountsOf : y[1] = x
              THEN (CHOOSE y \in RequestAmountsOf : y[1] = x)[2]
              ELSE RequestAmounts(routes, creator.country, creator.businessType, amount))

\* variant of CreateRequestLookup: a creator id that matches no creator is
\* taken for a Dutch individual
CreateRequestLookupAnyCreator(p, routes, authenticated, creatorId, amount, claimToken, dbOk) ==
  /\ Free(p)
  /\ IF ~authenticated
       THEN Respond(p, Unauthorized)
     ELSE IF ~dbOk
       THEN Respond(p, ServerError)
     ELSE LET creator == IF creatorId \in DOMAIN creators THEN creators[creatorId]
                         ELSE [id |-> creatorId, country |-> "NL",
                               businessType |-> "individual"]
          IN  Await(p, "requestInsert", RequestValues(routes, creator, amount, claimToken))
  /\ UNCHANGED <<creators, paymentRequests, now, claimsAccepted, transfers, sent, accounts,
               vatVars>>

\* variant of CreateRequestLookup: the route is not behind isAuthenticated
CreateRequestLookupNoAuth(p, routes, authenticated, creatorId, amount, claimToken, dbOk) ==
  /\ Free(p)
  /\ IF ~dbOk
       THEN Respond(p, ServerError)
     ELSE IF getCreator(creatorId) = {}
       THEN Respond(p, Response(404, "Creator not found"))
     ELSE Await(p, "requestInsert",
                RequestValues(routes, creators[creatorId], amount, claimToken))
  /\ UNCHANGED <<creators, paymentRequests, now, claimsAccepted, transfers, sent, accounts,
               vatVars>>

\* up to the second await: getCreator returned or threw, the VAT was computed
\* from the creator it returned and the token drawn
CreateRequestLookup(p, routes, authenticated, creatorId, amount, claimToken, dbOk) ==
  /\ Free(p)
  /\ IF ~authenticated
       THEN Respond(p, Unauthorized)
     ELSE IF ~dbOk
       THEN Respond(p, ServerError)
     ELSE IF getCreator(creatorId) = {}
       THEN Respond(p, Response(404, "Creator not found"))
     ELSE Await(p, "requestInsert",
                RequestValues(routes, creators[creatorId], amount, claimToken))
  /\ UNCHANGED <<creators, paymentRequests, now, claimsAccepted, transfers, sent, accounts,
               vatVars>>

\* variant of CreateRequestInsert: the table takes a second row with the same
\* claim token
CreateRequestInsertNoUnique(p, dbOk) ==
  /\ calls[p].pc = "requestInsert"
  /\ IF ~dbOk
       THEN /\ Respond(p, ServerError)
            /\ UNCHANGED <<paymentRequests, claimsAccepted>>
     ELSE IF "rejected" \in DOMAIN calls[p].locals
       THEN /\ Respond(p, InvalidNumeric)
            /\ UNCHANGED <<paymentRequests, claimsAccepted>>
     ELSE /\ Len(paymentRequests) < MaxRequests
          /\ paymentRequests' = createPaymentRequest(calls[p].locals)
          /\ claimsAccepted' = Append(claimsAccepted, 0)
          /\ Respond(p, Response(200, ""))
  /\ UNCHANGED <<creators, now, transfers, sent, accounts, vatVars>>

\* ... storage.createPaymentRequest returned, or threw (on the unique
\* claim_token column when the token is in use)
CreateRequestInsert(p, dbOk) ==
  /\ calls[p].pc = "requestInsert"
  /\ IF ~dbOk
       THEN /\ Respond(p, ServerError)
            /\ UNCHANGED <<paymentRequests, claimsAccepted>>
     ELSE IF "rejected" \in DOMAIN calls[p].locals
       THEN /\ Respond(p, InvalidNumeric)
            /\ UNCHANGED <<paymentRequests, claimsAccepted>>
     ELSE IF getPaymentRequestByToken(calls[p].locals.claimToken) # {}
       THEN /\ Respond(p, DuplicateToken)
            /\ UNCHANGED <<paymentRequests, claimsAccepted>>
     ELSE /\ Len(paymentRequests) < MaxRequests
          /\ paymentRequests' = createPaymentRequest(calls[p].locals)
          /\ claimsAccepted' = Append(claimsAccepted, 0)
          /\ Respond(p, Response(200, ""))
  /\ UNCHANGED <<creators, now, transfers, sent, accounts, vatVars>>

\* ---- POST /api/claim/:token

\* variant of ClaimLookup: every failure is answered 404
ClaimLookupNotFoundForAll(p, token, dbOk) ==
  /\ Free(p)
  /\ IF ~dbOk
       THEN Respond(p, ServerError)
     ELSE IF getPaymentRequestByToken(token) = {}
       THEN Respond(p, Response(404, "Payment request not found"))
     ELSE LET request == CHOOSE r \in getPaymentRequestByToken(token) : TRUE
          IN  IF request.status # "pending"
                THEN Respond(p, Response(404, "Payment request not found"))
                ELSE Await(p, "claimUpdate", [id |-> request.id, status |-> request.status])
  /\ UNCHANGED <<creators, paymentRequests, now, claimsAccepted, transfers, sent, accounts,
               vatVars>>

\* variant of ClaimLookup: the status of the row is not looked at
ClaimLookupNoStatusCheck(p, token, dbOk) ==
  /\ Free(p)
  /\ IF ~dbOk
       THEN Respond(p, ServerError)
     ELSE IF getPaymentRequestByToken(token) = {}
       THEN Respond(p, Response(404, "Payment request not found"))
     ELSE LET request == CHOOSE r \in getPaymentRequestByToken(token) : TRUE
          IN  Await(p, "claimUpdate", [id |-> request.id, status |-> request.status])
  /\ UNCHANGED <<creators, paymentRequests, now, claimsAccepted, transfers, sent, accounts,
               vatVars>>

\* up to the second await: getPaymentRequestByToken returned or threw, the
\* two checks ran on the row it returned
ClaimLookup(p, token, dbOk) ==
  /\ Free(p)
  /\ IF ~dbOk
       THEN Respond(p, ServerError)
     ELSE IF getPaymentRequestByToken(token) = {}
       THEN Respond(p, Response(404, "Payment request not found"))
     ELSE LET request == CHOOSE r \in getPaymentRequestByToken(token) : TRUE
          IN  IF request.status # "pending"
                THEN Respond(p, Response(400, "Payment request is not pending"))
                ELSE Await(p, "claimUpdate", [id |-> request.id, status |-> request.status])
  /\ UNCHANGED <<creators, paymentRequests, now, claimsAccepted, transfers, sent, accounts,
               vatVars>>

\* variant of ClaimUpdate: the VAT columns are written too
ClaimUpdateResetsVAT(p, dbOk) ==
  /\ calls[p].pc = "claimUpdate"
  /\ LET id == calls[p].locals.id
     IN  IF ~dbOk
           THEN /\ Respond(p, ServerError)
                /\ UNCHANGED <<paymentRequests, claimsAccepted>>
           ELSE /\ paymentRequests' =
                     updatePaymentRequest(id, [status |-> "claimed", vatRate |-> 0,
                                               vatAmount |-> 0])
                /\ claimsAccepted' = [claimsAccepted EXCEPT ![id] = @ + 1]
                /\ Respond(p, Response(200, "Payment claimed successfully"))
  /\ UNCHANGED <<creators, now, transfers, sent, accounts, vatVars>>

\* variant of ClaimUpdate: a throwing update is answered 200
ClaimUpdateSwallowsError(p, dbOk) ==
  /\ calls[p].pc = "claimUpdate"
  /\ LET id == calls[p].locals.id
     IN  IF ~dbOk
           THEN /\ Respond(p, Response(200, "Payment claimed successfully"))
                /\ UNCHANGED <<paymentRequests, claimsAccepted>>
           ELSE /\ paymentRequests' = updatePaymentRequest(id, [status |-> "claimed"])
                /\ claimsAccepted' = [claimsAccepted EXCEPT ![id] = @ + 1]
                /\ Respond(p, Response(200, "Payment claimed successfully"))
  /\ UNCHANGED <<creators, now, transfers, sent, accounts, vatVars>>

\* ... updatePaymentRequest (UPDATE .. WHERE id) returned or threw; the run
\* answers 200
ClaimUpdate(p, dbOk) ==
  /\ calls[p].pc = "claimUpdate"
  /\ LET id == calls[p].locals.id
     IN  IF ~dbOk
           THEN /\ Respond(p, ServerError)
                /\ UNCHANGED <<paymentRequests, claimsAccepted>>
           ELSE /\ paymentRequests' = updatePaymentRequest(id, [status |-> "claimed"])
                /\ claimsAccepted' = [claimsAccepted EXCEPT ![id] = @ + 1]
                /\ Respond(p, Response(200, "Payment claimed successfully"))
  /\ UNCHANGED <<creators, now, transfers, sent, accounts, vatVars>>

\* ---- POST /api/payment-requests/:id/process, behind isAuthenticated

\* up to the second await: getPaymentRequest returned or threw.  The run
\* keeps the row it read.
ProcessLookup(p, authenticated, id, dbOk) ==
  /\ Free(p)
  /\ IF ~authenticated
       THEN Respond(p, Unauthorized)
     ELSE IF ~dbOk
       THEN Respond(p, ServerError)
     ELSE IF getPaymentRequest(id) = {}
       THEN Respond(p, Response(404, "Payment request not found"))
     ELSE Await(p, "processGetCreator",
                [id |-> id, creatorId |-> paymentRequests[id].creatorId,
                 totalAmount |-> paymentRequests[id].totalAmount,
                 amount |-> paymentRequests[id].amount])
  /\ UNCHANGED <<creators, paymentRequests, now, claimsAccepted, transfers, sent, accounts,
               vatVars>>

\* ... getCreator returned or threw
ProcessGetCreator(p, dbOk) ==
  /\ calls[p].pc = "processGetCreator"
  /\ LET creator == getCreator(calls[p].locals.creatorId)
     IN  IF ~dbOk
           THEN Respond(p, ServerError)
         ELSE IF creator = {} \/ (\E c \in creator : c.stripeAccountId = 0)
           THEN Respond(p, Response(400, "Creator Stripe account not found"))
         ELSE Await(p, "processRetrieve", calls[p].locals)
  /\ UNCHANGED <<creators, paymentRequests, now, claimsAccepted, transfers, sent, accounts,
               vatVars>>

\* ... stripe.accounts.retrieve returned
ProcessRetrieve(p, chargesEnabled, payoutsEnabled) ==
  /\ calls[p].pc = "processRetrieve"
  /\ IF ~chargesEnabled \/ ~payoutsEnabled
       THEN Respond(p, Response(400, "Creator Stripe account not ready for payments"))
       ELSE Await(p, "processTransfer", calls[p].locals)
  /\ UNCHANGED <<creators, paymentRequests, now, claimsAccepted, transfers, sent, accounts,
               vatVars>>

\* variant of ProcessTransfer: the row is written as paid whatever the
\* outcome of the transfer
ProcessTransferPaidFirst(p, transferOk, t) ==
  /\ calls[p].pc = "processTransfer"
  /\ paymentRequests' = updatePaymentRequest(calls[p].locals.id, [status |-> "paid"])
  /\ IF ~transferOk
       THEN /\ t = now
            /\ Respond(p, ServerError)
            /\ UNCHANGED <<transfers, sent, now>>
       ELSE /\ t >= now
            /\ transfers[calls[p].locals.id] < MaxTransfers
            /\ transfers' = [transfers EXCEPT ![calls[p].locals.id] = @ + 1]
            /\ sent' = [sent EXCEPT ![calls[p].locals.id] = transferAmount(calls[p].locals)]
            /\ now' = t
            /\ Await(p, "processUpdate", [id |-> calls[p].locals.id, paidAt |-> t])
  /\ UNCHANGED <<creators, claimsAccepted, accounts, vatVars>>

\* ... stripe.transfers.create returned or threw.  When it returned, the run
\* goes on to the call of updatePaymentRequest, whose argument holds
\* new Date(): t is the time read there (no time is read when it threw).
ProcessTransfer(p, transferOk, t) ==
  /\ calls[p].pc = "processTransfer"
  /\ IF ~transferOk
       THEN /\ t = now
            /\ Respond(p, ServerError)
            /\ UNCHANGED <<transfers, sent, now>>
       ELSE /\ t >= now
            /\ transfers[calls[p].locals.id] < MaxTransfers
            /\ transfers' = [transfers EXCEPT ![calls[p].locals.id] = @ + 1]
            /\ sent' = [sent EXCEPT ![calls[p].locals.id] = transferAmount(calls[p].locals)]
            /\ now' = t
            /\ Await(p, "processUpdate", [id |-> calls[p].locals.id, paidAt |-> t])
  /\ UNCHANGED <<creators, paymentRequests, claimsAccepted, accounts, vatVars>>

\* ... updatePaymentRequest (UPDATE .. WHERE id) returned or threw; the run
\* answers 200.  The row gets the time the run read before the call.
ProcessUpdate(p, dbOk) ==
  /\ calls[p].pc = "processUpdate"
  /\ IF ~dbOk
       THEN /\ Respond(p, ServerError)
            /\ UNCHANGED paymentRequests
       ELSE /\ paymentRequests' =
                 updatePaymentRequest(calls[p].locals.id,
                                      [status |-> "paid", paidAt |-> calls[p].locals.paidAt])
            /\ Respond(p, Response(200, "Payment processed successfully"))
  /\ UNCHANGED <<creators, now, claimsAccepted, transfers, sent, accounts, vatVars>>

\* ------------------------------------------------------------------------
\* client pages: what they show for the rows the server returns.  Amounts
\* shown are in cents, the number of a "VAT (..%)" label in hundredths.
\* ------------------------------------------------------------------------

\* Intl.NumberFormat(.., {style: 'currency'}).format: two fraction digits,
\* the shortest decimal of the Number rounded half away from zero
formatCurrency(d) == toNumericScale2(d)

\* the Payment Summary of the claim page (pages/payment-claim.tsx): the stored
\* columns of the payment request
PaymentClaimStored(paymentRequest) ==
  [label |-> paymentRequest.vatRate,
   vat |-> formatCurrency(parseFloat(paymentRequest.vatAmount)),
   total |-> formatCurrency(parseFloat(paymentRequest.totalAmount))]

\* the Payment Summary of the claim page with the creator form: VAT computed
\* by the shared classifier from the creator the server returns with the
\* payment request
PaymentClaim(paymentRequest, creator) ==
  LET vatCalculation == calculateVAT(parseFloat(paymentRequest.amount), creator.country,
                                     creator.businessType)
      totalAmount == FAdd(parseFloat(paymentRequest.amount), vatCalculation.amount)
  IN  [label |-> toNumericScale2(vatCalculation.rate),
       vat |-> formatCurrency(vatCalculation.amount),
       total |-> formatCurrency(totalAmount)]

\* the preview of the admin's payment modal for the selected creator and the
\* amount typed: VAT computed by the client lib copy
PaymentModal(selectedCreatorInfo, watchedAmount) ==
  LET vatCalculation == libCalculateVAT(parseFloat(watchedAmount), selectedCreatorInfo.country,
                                        selectedCreatorInfo.businessType)
      totalAmount == FAdd(parseFloat(watchedAmount), vatCalculation.amount)
  IN  [vat |-> formatCurrency(vatCalculation.amount),
       total |-> formatCurrency(totalAmount)]

\* ------------------------------------------------------------------------
\* Specifications
\* ------------------------------------------------------------------------

Init ==
  /\ creators = <<>>
  /\ paymentRequests = <<>>
  /\ now = 1
  /\ res = NoResponse
  /\ claimsAccepted = <<>>
  /\ transfers = [i \in 1 .. MaxRequests |-> 0]
  /\ sent = [i \in 1 .. MaxRequests |-> NoTransfer]
  /\ accounts = 0
  /\ calls = [p \in Callers |-> Idle]
  /\ vatArgs = NoArgs
  /\ vatResult = NoResult
  /\ vatCopies = NoCopies
  /\ vatPc = "idle"

\* PATCH bodies that change the business type or the company name
PatchBodies ==
  {PatchUpdates(Absent, businessType, Absent, Absent) : businessType \in BusinessTypes}
    \cup {PatchUpdates(Absent, Absent, Absent, companyName) : companyName \in CompanyNames}

\* every handler, the requests of two callers overlapping
Next ==
  \E p \in Callers :
    \/ \E email \in {FaultEmail, ""} : QuickLookup(p, TRUE, email)
    \/ QuickInsert(p)
    \/ \E stripeOk \in BOOLEAN : QuickStripe(p, stripeOk)
    \/ QuickUpdate(p)
    \/ \E country \in Countries :
         CreateLookup(p, CreatorBody(FaultEmail, country, "vat_registered", Absent))
    \/ \E stripeOk \in BOOLEAN : CreateStripe(p, stripeOk)
    \/ CreateInsert(p)
    \/ \E updates \in PatchBodies : PatchLookup(p, 1, updates)
    \/ \E stripeOk \in BOOLEAN : PatchStripe(p, stripeOk)
    \/ PatchUpdate(p)
    \/ \E routes \in Routes :
         CreateRequestLookup(p, routes, TRUE, 1, FaultAmount, RaceToken, TRUE)
    \/ CreateRequestInsert(p, TRUE)
    \/ \E token \in {RaceToken, StaleToken} : ClaimLookup(p, token, TRUE)
    \/ ClaimUpdate(p, TRUE)
    \/ \E id \in 1 .. MaxRequests : ProcessLookup(p, TRUE, id, TRUE)
    \/ ProcessGetCreator(p, TRUE)
    \/ \E chargesEnabled \in BOOLEAN, payoutsEnabled \in BOOLEAN :
         ProcessRetrieve(p, chargesEnabled, payoutsEnabled)
    \/ \E transferOk \in BOOLEAN, t \in 1 .. MaxClock : ProcessTransfer(p, transferOk, t)
    \/ ProcessUpdate(p, TRUE)

Spec == Init /\ [][Next]_vars

\* PATCH bodies that change the business type, or the VAT number and the
\* company name
CreatorPatchBodies ==
  {PatchUpdates(Absent, "vat_registered", Absent, Absent)}
    \cup {PatchUpdates(Absent, Absent, vatId, companyName) :
            vatId \in {"NL001234567B01", Absent}, companyName \in CompanyNames}

\* the creator handlers on their own, two emails
NextCreators ==
  \E p \in Callers :
    \/ \E email \in Emails \cup {""} : QuickLookup(p, TRUE, email)
    \/ QuickInsert(p)
    \/ \E stripeOk \in BOOLEAN : QuickStripe(p, stripeOk)
    \/ QuickUpdate(p)
    \/ \E email \in Emails, vatId \in VatIds \cup {Absent} :
         CreateLookup(p, CreatorBody(email, "NL", "vat_registered", vatId))
    \/ \E stripeOk \in BOOLEAN : CreateStripe(p, stripeOk)
    \/ CreateInsert(p)
    \/ \E id \in 1 .. MaxCreators + 1, updates \in CreatorPatchBodies :
         PatchLookup(p, id, updates)
    \/ \E stripeOk \in BOOLEAN : PatchStripe(p, stripeOk)
    \/ PatchUpdate(p)

SpecCreators == Init /\ [][NextCreators]_vars

\* creators of every profile and the payment requests created for them, by
\* the handler of either routes module
NextRequests ==
  \E p \in Callers :
    \/ \E country \in RequestCountries, businessType \in BusinessTypes :
         CreateLookup(p, CreatorBody(FaultEmail, country, businessType, Absent))
    \/ \E stripeOk \in BOOLEAN : CreateStripe(p, stripeOk)
    \/ CreateInsert(p)
    \/ \E routes \in Routes, creatorId \in 1 .. MaxCreators, amount \in SignedAmountInputs :
         CreateRequestLookup(p, routes, TRUE, creatorId, amount, RaceToken, TRUE)
    \/ CreateRequestInsert(p, TRUE)

SpecRequests == Init /\ [][NextRequests]_vars

\* two payment requests of one creator, claimed and processed
NextLifecycle ==
  \E p \in Callers :
    \/ CreateLookup(p, CreatorBody(FaultEmail, "NL", "vat_registered", Absent))
    \/ \E stripeOk \in BOOLEAN : CreateStripe(p, stripeOk)
    \/ CreateInsert(p)
    \/ \E claimToken \in Tokens :
         CreateRequestLookup(p, "routes", TRUE, 1, FaultAmount, claimToken, TRUE)
    \/ CreateRequestInsert(p, TRUE)
    \/ \E token \in Tokens \cup {StaleToken} : ClaimLookup(p, token, TRUE)
    \/ ClaimUpdate(p, TRUE)
    \/ \E id \in 1 .. MaxRequests + 1 : ProcessLookup(p, TRUE, id, TRUE)
    \/ ProcessGetCreator(p, TRUE)
    \/ \E chargesEnabled \in BOOLEAN, payoutsEnabled \in BOOLEAN :
         ProcessRetrieve(p, chargesEnabled, payoutsEnabled)
    \/ \E transferOk \in BOOLEAN, t \in 1 .. MaxClock : ProcessTransfer(p, transferOk, t)
    \/ ProcessUpdate(p, TRUE)

SpecLifecycle == Init /\ [][NextLifecycle]_vars

\* the same with one request served at a time
NextSequential ==
  \E p \in {1} :
    \/ CreateLookup(p, CreatorBody(FaultEmail, "NL", "vat_registered", Absent))
    \/ \E stripeOk \in BOOLEAN : CreateStripe(p, stripeOk)
    \/ CreateInsert(p)
    \/ \E claimToken \in Tokens :
         CreateRequestLookup(p, "routes", TRUE, 1, FaultAmount, claimToken, TRUE)
    \/ CreateRequestInsert(p, TRUE)
    \/ \E token \in Tokens \cup {StaleToken} : ClaimLookup(p, token, TRUE)
    \/ ClaimUpdate(p, TRUE)
    \/ \E id \in 1 .. MaxRequests + 1 : ProcessLookup(p, TRUE, id, TRUE)
    \/ ProcessGetCreator(p, TRUE)
    \/ \E chargesEnabled \in BOOLEAN, payoutsEnabled \in BOOLEAN :
         ProcessRetrieve(p, chargesEnabled, payoutsEnabled)
    \/ \E transferOk \in BOOLEAN, t \in 1 .. MaxClock : ProcessTransfer(p, transferOk, t)
    \/ ProcessUpdate(p, TRUE)

SpecSequential == Init /\ [][NextSequential]_vars

\* requests with and without a session, storage calls that throw
NextFaults ==
  \E p \in Callers :
    \/ \E authenticated \in BOOLEAN : QuickLookup(p, authenticated, FaultEmail)
    \/ QuickInsert(p)
    \/ \E stripeOk \in BOOLEAN : QuickStripe(p, stripeOk)
    \/ QuickUpdate(p)
    \/ \E authenticated \in BOOLEAN, creatorId \in 1 .. MaxCreators, dbOk \in BOOLEAN :
         CreateRequestLookup(p, "routes", authenticated, creatorId, FaultAmount, RaceToken,
                             dbOk)
    \/ \E dbOk \in BOOLEAN : CreateRequestInsert(p, dbOk)
    \/ \E token \in {RaceToken, StaleToken}, dbOk \in BOOLEAN : ClaimLookup(p, token, dbOk)
    \/ \E dbOk \in BOOLEAN : ClaimUpdate(p, dbOk)
    \/ \E authenticated \in BOOLEAN, id \in 1 .. MaxRequests, dbOk \in BOOLEAN :
         ProcessLookup(p, authenticated, id, dbOk)
    \/ \E dbOk \in BOOLEAN : ProcessGetCreator(p, dbOk)
    \/ \E chargesEnabled \in BOOLEAN, payoutsEnabled \in BOOLEAN :
         ProcessRetrieve(p, chargesEnabled, payoutsEnabled)
    \/ \E transferOk \in BOOLEAN, t \in 1 .. MaxClock : ProcessTransfer(p, transferOk, t)
    \/ \E dbOk \in BOOLEAN : ProcessUpdate(p, dbOk)

SpecFaults == Init /\ [][NextFaults]_vars

\* ------------------------------------------------------------------------
\* The classifier on its own: every call calculateVAT(amount, code, type)
\* ------------------------------------------------------------------------

InitVAT ==
  /\ creators = <<>>
  /\ paymentRequests = <<>>
  /\ now = 1
  /\ res = NoResponse
  /\ claimsAccepted = <<>>
  /\ transfers = [i \in 1 .. MaxRequests |-> 0]
  /\ sent = [i \in 1 .. MaxRequests |-> NoTransfer]
  /\ accounts = 0
  /\ calls = [p \in Callers |-> Idle]
  /\ vatArgs \in [amount : VATAmounts, countryCode : VATCountries,
                  businessType : VATBusinessTypes]
  /\ vatResult = NoResult
  /\ vatCopies = NoCopies
  /\ vatPc = "call"

Classify ==
  /\ vatPc = "call"
  /\ vatResult' = calculateVAT(parseFloat(vatArgs.amount), vatArgs.countryCode,
                               vatArgs.businessType)
  /\ vatPc' = "returned"
  /\ UNCHANGED <<vatArgs, vatCopies, dbVars>>

\* the same arguments given to the three definitions
ClassifyCopies ==
  /\ vatPc = "call"
  /\ vatResult' = calculateVAT(parseFloat(vatArgs.amount), vatArgs.countryCode,
                               vatArgs.businessType)
  /\ vatCopies' =
       [lib |-> libCalculateVAT(parseFloat(vatArgs.amount), vatArgs.countryCode,
                                vatArgs.businessType),
        routes |-> routesCalculateVAT(parseFloat(vatArgs.amount), vatArgs.countryCode,
                                      vatArgs.businessType)]
  /\ vatPc' = "returned"
  /\ UNCHANGED <<vatArgs, dbVars>>

NextCopies == ClassifyCopies

SpecCopies == InitVAT /\ [][NextCopies]_vars

NextVAT == Classify

SpecVAT == InitVAT /\ [][NextVAT]_vars

\* ------------------------------------------------------------------------
\* Properties of the classifier (checked under SpecVAT)
\* ------------------------------------------------------------------------

\* the 27 member-state codes, as the specification enumerates them
EU27 ==
  { "AT", "BE", "BG", "HR", "CY", "CZ", "DK", "EE", "FI", "FR", "DE", "GR", "HU", "IE",
    "IT", "LV", "LT", "LU", "MT", "NL", "PL", "PT", "RO", "SK", "SI", "ES", "SE" }

Returned == vatPc = "returned"
ArgAmount == parseFloat(vatArgs.amount)
NoVATFor(a) ==
  [rate |-> Zero, amount |-> Zero, total |-> a, isEUVATShift |-> FALSE,
   note |-> "No VAT applicable."]

\* |x - y| <= 1
Within1(x, y) == x - y <= 1 /\ y - x <= 1

\* C1: for a Dutch vat_registered payee the classifier returns the rate 0.21 as
\* a fraction, the VAT amount a * 0.21, the total a + a * 0.21, no reverse
\* charge and the note "Dutch VAT (21%) applied."; a = 1000 gives 210 and 1210,
\* and the total shown to two decimals is within a hundredth of a * 1.21.
C1_DutchVatRegistered ==
  (Returned /\ vatArgs.countryCode = "NL" /\ vatArgs.businessType = "vat_registered") =>
    /\ vatResult.rate = FromRat(21, 100)
    /\ vatResult.rate # FromRat(21, 1)
    /\ vatResult.amount = FMul(ArgAmount, FromRat(21, 100))
    /\ vatResult.total = FAdd(ArgAmount, FMul(ArgAmount, FromRat(21, 100)))
    /\ vatResult.isEUVATShift = FALSE
    /\ vatResult.note = "Dutch VAT (21%) applied."
    /\ Within1(toNumericScale2(vatResult.total), (121 * vatArgs.amount + 50) \div 100)
    /\ vatArgs.amount = 100000 =>
         /\ vatResult.amount = FromRat(210, 1)
         /\ vatResult.total = FromRat(1210, 1)

C1_Witness ==
  /\ Returned
  /\ vatArgs = [amount |-> 100000, countryCode |-> "NL", businessType |-> "vat_registered"]
  /\ vatResult.amount = FromRat(210, 1)

\* C2: for every one of the 27 EU codes other than NL and a vat_registered
\* payee the classifier returns rate 0, VAT 0, total = amount and reverse
\* charge true.
C2_EUReverseCharge ==
  /\ Cardinality(EU27) = 27
  /\ (Returned /\ vatArgs.countryCode \in EU27 \ {"NL"}
        /\ vatArgs.businessType = "vat_registered") =>
       /\ vatResult.rate = Zero
       /\ vatResult.amount = Zero
       /\ vatResult.total = ArgAmount
       /\ vatResult.isEUVATShift = TRUE

C2_Witness ==
  /\ Returned
  /\ vatArgs = [amount |-> 100000, countryCode |-> "AT", businessType |-> "vat_registered"]
  /\ vatResult.isEUVATShift = TRUE

\* C3: whenever the business type is not vat_registered (individual,
\* vat_exempt, or a value outside the enum such as "company"), for any country,
\* and whenever it is vat_registered but the country is outside the EU set, the
\* classifier returns rate 0, VAT 0, total = amount and no reverse charge.
C3_NoVAT ==
  (Returned /\ (vatArgs.businessType # "vat_registered" \/ vatArgs.countryCode \notin EU27)) =>
    /\ vatResult.rate = Zero
    /\ vatResult.amount = Zero
    /\ vatResult.total = ArgAmount
    /\ vatResult.isEUVATShift = FALSE

C3_Witness ==
  /\ Returned
  /\ vatArgs = [amount |-> 100000, countryCode |-> "DE", businessType |-> "company"]
  /\ vatResult.total = FromRat(1000, 1)

\* C4: the classifier returns a result for every input, and for a country code
\* that is not exactly one of the 27 upper-case EU codes (unknown, empty,
\* lower case) it is the no-VAT result whatever the business type.
C4_UnrecognizedCountry ==
  Returned =>
    /\ DOMAIN vatResult = {"rate", "amount", "total", "isEUVATShift", "note"}
    /\ vatArgs.countryCode \notin EU27 => vatResult = NoVATFor(ArgAmount)

C4_Witness ==
  /\ Returned
  /\ vatArgs = [amount |-> 100000, countryCode |-> "nl", businessType |-> "vat_registered"]
  /\ vatResult = NoVATFor(FromRat(1000, 1))

\* ------------------------------------------------------------------------
\* Properties of the payment-request lifecycle
\* ------------------------------------------------------------------------

RequestIds == DOMAIN paymentRequests
Inserted == Len(paymentRequests') = Len(paymentRequests) + 1
ByToken(token) == {i \in RequestIds : paymentRequests[i].claimToken = token}
NotFound == Response(404, "Payment request not found")
InvalidState == Response(400, "Payment request is not pending")
Frozen(r) == <<r.vatRate, r.vatAmount, r.totalAmount>>
\* the run of caller p ends in this step
Ended(p) == calls[p].pc # "idle" /\ calls'[p] = Idle
\* this step is the first of a run of caller p
Began(p) == calls[p].pc = "idle" /\ (calls'[p] # Idle \/ res' # NoResponse)

\* C5: a create for an existing creator stores a new record with the base
\* amount, with the classifier's rate (as a fraction), VAT amount and total for
\* the creator's country and business type, and with status pending; base 100
\* for a Dutch vat_registered creator stores 0.21 / 21 / 121 (checked under
\* SpecRequests, the handler of either routes module: the run computes the
\* values from the creator it read and its insert stores them).
C5_CreateStoresClassifierResult ==
  /\ [][\A p \in Callers, routes \in Routes, creatorId \in DOMAIN creators,
           amount \in AmountInputs :
          CreateRequestLookup(p, routes, TRUE, creatorId, amount, RaceToken, TRUE) =>
            LET r == calls'[p].locals
                c == creators[creatorId]
                v == calculateVAT(parseFloat(amount), c.country, c.businessType)
            IN  /\ calls'[p].pc = "requestInsert"
                /\ "vatRate" \in DOMAIN r
                /\ r.creatorId = creatorId
                /\ r.amount = amount
                /\ r.vatRate = toNumericScale2(v.rate)
                /\ r.vatRate \in {0, 21}
                /\ r.vatAmount = toNumericScale2(v.amount)
                /\ r.totalAmount = toNumericScale2(v.total)
                /\ (c.country = "NL" /\ c.businessType = "vat_registered" /\ amount = 10000) =>
                     Frozen(r) = <<21, 2100, 12100>>]_vars
  /\ [][\A p \in Callers :
          (Inserted /\ CreateRequestInsert(p, TRUE)) =>
            LET r == paymentRequests'[Len(paymentRequests')]
            IN  /\ \A f \in DOMAIN calls[p].locals : r[f] = calls[p].locals[f]
                /\ r.status = "pending"
                /\ res' = Response(200, "")]_vars

\* C6: every stored payment request has totalAmount = amount + vatAmount on
\* the persisted two-decimal values (checked under SpecRequests).
C6_TotalIsBasePlusVAT ==
  \A i \in RequestIds :
    paymentRequests[i].totalAmount = paymentRequests[i].amount + paymentRequests[i].vatAmount

\* C7: no step changes the vatRate, vatAmount or totalAmount of an existing
\* payment request, whatever is edited on its creator afterwards.
C7_FrozenAtCreation ==
  [][\A i \in RequestIds :
       /\ i \in DOMAIN paymentRequests'
       /\ Frozen(paymentRequests'[i]) = Frozen(paymentRequests[i])
       /\ paymentRequests'[i].amount = paymentRequests[i].amount]_vars

\* a request stored with Dutch VAT whose creator has since become an
\* individual, and was paid
C7_Witness ==
  \E i \in RequestIds :
    /\ Frozen(paymentRequests[i]) = <<21, 2100, 12100>>
    /\ paymentRequests[i].status = "paid"
    /\ creators[paymentRequests[i].creatorId].businessType = "individual"

\* C8: a status changes only along pending->claimed, pending->paid,
\* claimed->paid, pending->failed, claimed->failed, and a record whose status
\* is paid or failed is never written again (checked under SpecSequential:
\* one request served at a time is enough).
C8_TransitionsAndTerminalStates ==
  [][\A i \in RequestIds :
       LET old == paymentRequests[i]
           new == paymentRequests'[i]
       IN  /\ old.status # new.status =>
                <<old.status, new.status>> \in
                  { <<"pending", "claimed">>, <<"pending", "paid">>, <<"claimed", "paid">>,
                    <<"pending", "failed">>, <<"claimed", "failed">> }
           /\ old.status \in {"paid", "failed"} => new = old]_vars

\* C9: a claim with a token no request has answers NotFound, a claim of a
\* request that is claimed, paid or failed answers InvalidState, the two
\* answers differ, and neither modifies any record or leaves a run in flight;
\* a record is set to claimed only by the update of a claim run whose lookup
\* returned it with status pending (checked under SpecLifecycle; the status is
\* the one the run's lookup returns: what the row holds when the update of an
\* overlapped run is executed is the matter of C11 and C26).
C9_ClaimFailures ==
  /\ [][\A p \in Callers, token \in Tokens \cup {StaleToken} :
          ClaimLookup(p, token, TRUE) =>
            /\ NotFound # InvalidState
            /\ paymentRequests' = paymentRequests
            /\ creators' = creators
            /\ ByToken(token) = {} => res' = NotFound /\ calls'[p] = Idle
            /\ \A i \in ByToken(token) :
                 IF paymentRequests[i].status \in {"claimed", "paid", "failed"}
                   THEN res' = InvalidState /\ calls'[p] = Idle
                   ELSE /\ paymentRequests[i].status = "pending"
                        /\ calls'[p].pc = "claimUpdate"
                        /\ calls'[p].locals.id = i]_vars
  /\ [][\A i \in RequestIds :
          (paymentRequests'[i].status = "claimed" /\ paymentRequests'[i] # paymentRequests[i]) =>
            \E p \in Callers :
              /\ ClaimUpdate(p, TRUE)
              /\ calls[p].locals = [id |-> i, status |-> "pending"]
              /\ res'.status = 200]_vars

\* a re-claim was refused while an unknown token would be answered otherwise
C9_Witness ==
  /\ res = InvalidState
  /\ \E i \in RequestIds : paymentRequests[i].status \in {"claimed", "paid"}

\* C10: with one request served at a time, a claim of a pending request
\* succeeds, every later claim with the same token answers InvalidState, and
\* no token is ever claimed successfully twice (checked under SpecSequential).
C10_ClaimSucceedsOnce ==
  /\ [](\A i \in RequestIds : claimsAccepted[i] <= 1)
  /\ [][\A p \in Callers, token \in Tokens : \A i \in ByToken(token) :
          /\ (ClaimLookup(p, token, TRUE) /\ paymentRequests[i].status = "pending") =>
               calls'[p].pc = "claimUpdate"
          /\ (ClaimUpdate(p, TRUE) /\ calls[p].locals.id = i) =>
               /\ paymentRequests[i].status = "pending"
               /\ res'.status = 200
               /\ claimsAccepted'[i] = claimsAccepted[i] + 1
          /\ (ClaimLookup(p, token, TRUE) /\ claimsAccepted[i] >= 1) =>
               res' = InvalidState /\ claimsAccepted'[i] = claimsAccepted[i]]_vars

\* the one request was claimed once and a second claim was refused
C10_Witness ==
  /\ Len(paymentRequests) = 1
  /\ claimsAccepted[1] = 1
  /\ paymentRequests[1].status = "claimed"
  /\ res = InvalidState

\* ------------------------------------------------------------------------
\* Properties of the transitions: races, gating, faults, authentication
\* ------------------------------------------------------------------------

Claimed200 == Response(200, "Payment claimed successfully")
Processed200 == Response(200, "Payment processed successfully")
CreatorNotFound == Response(404, "Creator not found")
HasAccount(r) == \E c \in getCreator(r.creatorId) : c.stripeAccountId # 0

\* C11: of the claim runs for one token whose lookup, check and write are
\* interleaved, at most one answers success (checked under SpecLifecycle).
C11_AtMostOneConcurrentClaimSucceeds ==
  \A i \in RequestIds : claimsAccepted[i] <= 1

\* C12: a process run (account ready, transfer made) for a pending or claimed
\* request is accepted; for a request that is paid or failed it is refused
\* with a 400 when it has read the request, makes no transfer and leaves the
\* record as it is (checked under SpecSequential).
C12_ProcessGatedOnStatus ==
  /\ [][\A p \in Callers :
          ProcessUpdate(p, TRUE) =>
            res' = Processed200 /\ paymentRequests'[calls[p].locals.id].status = "paid"]_vars
  /\ [][\A p \in Callers, id \in RequestIds :
          (ProcessLookup(p, TRUE, id, TRUE)
             /\ paymentRequests[id].status \in {"paid", "failed"}) =>
            /\ res'.status = 400
            /\ calls'[p] = Idle
            /\ transfers' = transfers
            /\ paymentRequests' = paymentRequests]_vars

\* C13: whatever process calls are made for a payment request, at most one
\* transfer is executed for it (checked under SpecSequential).
C13_AtMostOneTransfer ==
  \A i \in RequestIds : transfers[i] <= 1

\* C14: a process run whose transfer fails, on a pending or claimed request
\* of a creator with a ready account, sets the request's status to failed
\* (checked under SpecSequential).
C14_FailedOnTransferFailure ==
  [][\A p \in Callers :
       (ProcessTransfer(p, FALSE, now)
          /\ paymentRequests[calls[p].locals.id].status \in {"pending", "claimed"}) =>
         paymentRequests'[calls[p].locals.id].status = "failed"]_vars

\* C15: a record is written as paid only by the update of a process run that
\* has made its transfer for it, and the step answers 200; a process run for a
\* creator without an account, with a flag off, or whose transfer fails ends
\* there with an error, having made no transfer and changed no record (status,
\* paidAt) (checked under SpecFaults).
C15_PaidOnlyAfterTransfer ==
  /\ [](\A p \in Callers :
          calls[p].pc = "processUpdate" => transfers[calls[p].locals.id] >= 1)
  /\ [][\A i \in RequestIds :
          (paymentRequests'[i] # paymentRequests[i] /\ paymentRequests'[i].status = "paid") =>
            /\ transfers[i] >= 1
            /\ res' = Processed200
            /\ \E p \in Callers :
                 /\ calls[p].pc = "processUpdate"
                 /\ calls[p].locals.id = i
                 /\ calls'[p] = Idle]_vars
  /\ [][\A p \in Callers, chargesEnabled \in BOOLEAN, payoutsEnabled \in BOOLEAN :
          (\/ ProcessGetCreator(p, TRUE)
                /\ ~(calls[p].locals.creatorId \in DOMAIN creators
                       /\ creators[calls[p].locals.creatorId].stripeAccountId # 0)
           \/ ProcessRetrieve(p, chargesEnabled, payoutsEnabled)
                /\ ~(chargesEnabled /\ payoutsEnabled)
           \/ ProcessTransfer(p, FALSE, now)) =>
            /\ paymentRequests' = paymentRequests
            /\ transfers' = transfers
            /\ res'.status >= 400
            /\ calls'[p] = Idle]_vars

\* a pending request was refused payment because the account is not ready
C15_Witness ==
  /\ res = Response(400, "Creator Stripe account not ready for payments")
  /\ \E i \in RequestIds :
       /\ paymentRequests[i].status = "pending"
       /\ paymentRequests[i].paidAt = 0
       /\ transfers[i] = 0
       /\ HasAccount(paymentRequests[i])

\* C16: a create whose creatorId matches no creator answers 404 "Creator not
\* found" and ends there: it stores no payment request and issues no token
\* (checked under SpecFaults, where creator ids beyond the stored ones are
\* sent).
C16_CreateUnknownCreator ==
  [][\A p \in Callers, creatorId \in (1 .. MaxCreators) \ DOMAIN creators :
       CreateRequestLookup(p, "routes", TRUE, creatorId, FaultAmount, RaceToken, TRUE) =>
         /\ res' = CreatorNotFound
         /\ calls'[p] = Idle
         /\ paymentRequests' = paymentRequests]_vars

\* creator 1 exists, and a create for another id was answered 404
C16_Witness ==
  /\ res = CreatorNotFound
  /\ Len(creators) = 1
  /\ paymentRequests = <<>>

\* C17: no two payment requests share a claim token, and a create that stores
\* a request gives it a token no existing request has (checked under
\* SpecLifecycle, the creates of two callers overlapping).
C17_TokensUnique ==
  /\ [](\A i, j \in RequestIds :
          i # j => paymentRequests[i].claimToken # paymentRequests[j].claimToken)
  /\ [][Inserted =>
          \A i \in RequestIds :
            paymentRequests[i].claimToken
              # paymentRequests'[Len(paymentRequests')].claimToken]_vars

\* two requests with their own tokens, and a create whose token collided
C17_Witness ==
  /\ Len(paymentRequests) = 2
  /\ paymentRequests[1].claimToken # paymentRequests[2].claimToken
  /\ res = DuplicateToken

\* C18: a claim or process run that answers 200 changes exactly one payment
\* request in the step of its update: claim only its status, process only its
\* status and paidAt; every other field, every other request and every creator
\* stay as they were, and no other step of these runs writes (checked under
\* SpecLifecycle).
C18_OneRecordMutation ==
  /\ [][(res' \in {Claimed200, Processed200}) =>
          /\ creators' = creators
          /\ Len(paymentRequests') = Len(paymentRequests)
          /\ \E i \in RequestIds :
               /\ \A j \in RequestIds \ {i} : paymentRequests'[j] = paymentRequests[j]
               /\ \A f \in DOMAIN paymentRequests[i] \ {"status", "paidAt"} :
                    paymentRequests'[i][f] = paymentRequests[i][f]
               /\ res' = Claimed200 =>
                    /\ paymentRequests'[i].status = "claimed"
                    /\ paymentRequests'[i].paidAt = paymentRequests[i].paidAt
               /\ res' = Processed200 =>
                    /\ paymentRequests'[i].status = "paid"
                    /\ \E p \in Callers :
                         /\ calls[p].pc = "processUpdate"
                         /\ calls[p].locals.id = i
                         /\ paymentRequests'[i].paidAt = calls[p].locals.paidAt]_vars
  /\ [][\A p \in Callers :
          (calls[p].pc \in {"processGetCreator", "processRetrieve", "processTransfer"}
             /\ calls'[p] # calls[p]) =>
            paymentRequests' = paymentRequests /\ creators' = creators]_vars

\* of two requests with VAT, one was claimed and the other is as it was stored
C18_Witness ==
  /\ Len(paymentRequests) = 2
  /\ res = Claimed200
  /\ paymentRequests[1].status = "claimed"
  /\ paymentRequests[2].status = "pending"
  /\ paymentRequests[1].vatAmount > 0
  /\ paymentRequests[2].vatAmount > 0

\* the step answers 500, ends the run of p and no stored record differs
FailureSurfaced(p) ==
  /\ res' = ServerError
  /\ calls'[p] = Idle
  /\ paymentRequests' = paymentRequests
  /\ creators' = creators
  /\ transfers' = transfers

\* C19: a create, claim or process run in which a storage call throws answers
\* an error and ends there: the call is not made again, no transfer follows,
\* and every stored payment request (its status included) is as it was; a
\* process run whose update throws has made its one transfer (checked under
\* SpecFaults).
C19_PersistenceFailureSurfaced ==
  /\ [][\A p \in Callers :
          /\ \A creatorId \in 1 .. MaxCreators :
               CreateRequestLookup(p, "routes", TRUE, creatorId, FaultAmount, RaceToken, FALSE)
                 => FailureSurfaced(p)
          /\ CreateRequestInsert(p, FALSE) => FailureSurfaced(p)
          /\ \A token \in {RaceToken, StaleToken} :
               ClaimLookup(p, token, FALSE) => FailureSurfaced(p)
          /\ ClaimUpdate(p, FALSE) => FailureSurfaced(p)
          /\ \A id \in 1 .. MaxRequests :
               ProcessLookup(p, TRUE, id, FALSE) => FailureSurfaced(p)
          /\ ProcessGetCreator(p, FALSE) => FailureSurfaced(p)
          /\ ProcessUpdate(p, FALSE) =>
               FailureSurfaced(p) /\ transfers[calls[p].locals.id] >= 1]_vars
  /\ [](\A i \in RequestIds :
          (transfers[i] = 0 /\ \A p \in Callers : calls[p].pc = "idle") =>
             paymentRequests[i].status # "paid")

\* the update of a process run threw after its transfer: 500, one transfer,
\* the request still pending, no run in flight
C19_Witness ==
  /\ res = ServerError
  /\ \A p \in Callers : calls[p] = Idle
  /\ \E i \in RequestIds :
       /\ transfers[i] = 1
       /\ paymentRequests[i].status = "pending"
       /\ paymentRequests[i].paidAt = 0

\* the step answers 401, ends the run of p, changes no record and makes no
\* transfer
Refused(p) ==
  /\ res' = Unauthorized
  /\ calls'[p] = Idle
  /\ paymentRequests' = paymentRequests
  /\ creators' = creators
  /\ transfers' = transfers

\* C20: a create or process call without a session is answered 401 before its
\* handler runs: it stores no payment request, pays none and makes no
\* transfer, whatever else it carries, so every run that inserts, transfers or
\* writes paid began with a session; a claim needs the token only (checked
\* under SpecFaults).
C20_PrivilegedNeedSession ==
  /\ [][\A p \in Callers, dbOk \in BOOLEAN :
          /\ \A creatorId \in 1 .. MaxCreators :
               CreateRequestLookup(p, "routes", FALSE, creatorId, FaultAmount, RaceToken, dbOk)
                 => Refused(p)
          /\ \A id \in 1 .. MaxRequests :
               ProcessLookup(p, FALSE, id, dbOk) => Refused(p)]_vars
  /\ [][\A p \in Callers :
          (Began(p) /\ calls'[p].pc \in {"requestInsert", "processGetCreator"}) =>
            \/ \E creatorId \in 1 .. MaxCreators :
                 CreateRequestLookup(p, "routes", TRUE, creatorId, FaultAmount, RaceToken, TRUE)
            \/ \E id \in 1 .. MaxRequests : ProcessLookup(p, TRUE, id, TRUE)]_vars
  /\ [][\A p \in Callers : \A i \in ByToken(RaceToken) :
          /\ (paymentRequests[i].status = "pending" /\ ClaimLookup(p, RaceToken, TRUE)) =>
               calls'[p].pc = "claimUpdate"
          /\ (ClaimUpdate(p, TRUE) /\ calls[p].locals.id = i) =>
               res' = Claimed200 /\ paymentRequests'[i].status = "claimed"]_vars

\* a call without a session was refused while a stored request stays pending
C20_Witness ==
  /\ res = Unauthorized
  /\ \E i \in RequestIds : paymentRequests[i].status = "pending" /\ transfers[i] = 0

\* ------------------------------------------------------------------------
\* Properties of the other VAT definitions, the pages and the stored values
\* ------------------------------------------------------------------------

\* C21: for every (amount, country, business type) the client lib copy and the
\* routes-embedded copy return the rate, the VAT amount and (as base + VAT) the
\* total that the three-rule classifier returns (checked under SpecCopies).
C21_CopiesAgree ==
  Returned =>
    \A copy \in {vatCopies.lib, vatCopies.routes} :
      /\ copy.rate = vatResult.rate
      /\ copy.amount = vatResult.amount
      /\ FAdd(ArgAmount, copy.amount) = vatResult.total

\* C22: every stored creator whose business type is vat_registered has a
\* non-empty VAT number (checked under SpecCreators: creating or updating a
\* creator to vat_registered without one must store nothing).
C22_VatRegisteredHaveVatNumber ==
  \A i \in DOMAIN creators :
    creators[i].businessType = "vat_registered" => creators[i].vatId # ""

\* C23: the base amount of every stored payment request is non-negative
\* (checked under SpecRequests, where the request body carries negative, zero
\* and positive amounts).
C23_AmountsNonNegative ==
  \A i \in DOMAIN paymentRequests : paymentRequests[i].amount >= 0

\* C24: whenever stripe.transfers.create was called for a payment request, the
\* amount it was given is the request's stored totalAmount in cents, in EUR,
\* whatever the creator's business type is by then.
C24_TransferIsStoredTotal ==
  \A i \in RequestIds :
    transfers[i] > 0 =>
      sent[i] = [amount |-> paymentRequests[i].totalAmount, currency |-> "eur"]

\* a transfer of a total with Dutch VAT in it, made after the creator became
\* an individual
C24_Witness ==
  \E i \in RequestIds :
    /\ transfers[i] > 0
    /\ paymentRequests[i].vatAmount > 0
    /\ sent[i].amount = paymentRequests[i].amount + paymentRequests[i].vatAmount
    /\ creators[paymentRequests[i].creatorId].country = "NL"
    /\ creators[paymentRequests[i].creatorId].businessType = "individual"

\* C25: no two stored creators have the same email, and an insert for an email
\* that already belongs to a creator (the other run's insert came in between
\* this run's lookup and its own insert) stores nothing and answers an error
\* (checked under SpecCreators, the handlers of two callers overlapping).
C25_EmailsUnique ==
  /\ [](\A i, j \in DOMAIN creators : creators[i].email = creators[j].email => i = j)
  /\ [][\A p \in Callers :
          (/\ calls[p].pc \in {"createInsert", "quickInsert"}
           /\ calls'[p] # calls[p]
           /\ getCreatorByEmail(calls[p].locals.email) # {})
          => creators' = creators /\ res'.status >= 400 /\ calls'[p] = Idle]_vars

\* two creators are stored and a run was refused at its insert
C25_Witness ==
  /\ Len(creators) = 2
  /\ res = DuplicateEmail

\* C26: a payment request that has been written as paid is never afterwards
\* written as claimed (checked under SpecLifecycle, a claim run and a process
\* run for the same request overlapping).
C26_PaidNotOverwrittenByClaim ==
  [][\A i \in RequestIds :
       paymentRequests[i].status = "paid" => paymentRequests'[i].status # "claimed"]_vars

\* C29: a payment request has a paid timestamp exactly when its status is paid
\* (checked under SpecLifecycle, claim and process runs overlapping).
C29_PaidAtIffPaid ==
  \A i \in RequestIds : paymentRequests[i].paidAt # 0 <=> paymentRequests[i].status = "paid"

\* C27: for every stored payment request both versions of the claim page show
\* the request's stored vatAmount and totalAmount, whatever the creator's
\* country and business type are by then.
C27_ClaimPageShowsFrozen ==
  \A i \in RequestIds :
    LET r == paymentRequests[i]
        c == creators[r.creatorId]
    IN  /\ PaymentClaimStored(r).vat = r.vatAmount
        /\ PaymentClaimStored(r).total = r.totalAmount
        /\ PaymentClaim(r, c).vat = r.vatAmount
        /\ PaymentClaim(r, c).total = r.totalAmount

\* C28: the number in the "VAT (..%)" label of the claim page is the stored
\* fractional rate times 100 (in hundredths: 2100 for the rate 0.21)
\* (checked under SpecRequests, for the requests with a positive amount).
C28_LabelIsPercent ==
  \A i \in {k \in RequestIds : paymentRequests[k].amount > 0} :
    LET r == paymentRequests[i]
        c == creators[r.creatorId]
    IN  /\ PaymentClaimStored(r).label = 100 * r.vatRate
        /\ PaymentClaim(r, c).label =
             100 * toNumericScale2(calculateVAT(parseFloat(r.amount), c.country,
                                                c.businessType).rate)

\* C30: when a payment request is created, the VAT and the total of the
\* payment modal's preview for that creator and amount are the vatAmount and
\* totalAmount of the row the server stores (checked under SpecRequests, for
\* the positive amounts, which are the ones the modal submits).
C30_PreviewIsStored ==
  [][(Inserted /\ paymentRequests'[Len(paymentRequests')].amount > 0) =>
       LET r == paymentRequests'[Len(paymentRequests')]
           preview == PaymentModal(creators[r.creatorId], r.amount)
       IN  preview.vat = r.vatAmount /\ preview.total = r.totalAmount]_vars

====
